---- MODULE Spec2Model ----
(***************************************************************************)
(* Radar point-cloud clustering of chrono_sensor:                          *)
(*   DBSCAN (chrono_sensor/utils/Dbscan.h) and                             *)
(*   ChFilterRadarProcess::Apply (chrono_sensor/filters).                  *)
(*                                                                         *)
(* Dbscan.h declares the class and carries the definitions of its member    *)
(* functions in a comment block (lines 56-177); the model follows those    *)
(* definitions.  The kd-tree (Kdtree.h) is not part of the sources at      *)
(* hand: a range query is modelled by its contract, every inserted point   *)
(* within the Euclidean distance, the boundary included.                   *)
(*                                                                         *)
(* Conventions.  A float is an integer counting halves (0.5f is 1, 1.0f is *)
(* 2), so that the positions used by the scenarios are integers.  A        *)
(* quotient is kept exact as a reduced fraction <<num, den>>.  Candidate   *)
(* indices (pid) and cluster indices (cid) are 0-based as in the C++;      *)
(* At(s, i) reads element i of a vector.                                   *)
(***************************************************************************)
EXTENDS Integers, Sequences, FiniteSets, TLC

\* ------------------------------------------------------------------ bounds
\* longest candidate vector handed to DBSCAN::Run by the direct driver
MaxPts == 4
\* the number of rows of the beam grid (m_buffer_in->Height)
Height == 6

\* ------------------------------------------------------- program constants
\* int minimum_points = 5;
minimum_points == 5
\* float epsilon = 1;   (1.0f, in halves)
epsilon == 2

\* the number of beams in a row of the grid (m_buffer_in->Width)
Width == 2

\* m_buffer_out->Width * m_buffer_out->Height
FrameSize == Width * Height

\* ------------------------------------------------------------ vector help
At(s, i) == s[i + 1]
SetAt(s, i, v) == [s EXCEPT ![i + 1] = v]
Elems(s) == {s[k] : k \in 1..Len(s)}
Fill(n, v) == [k \in 1..n |-> v]

\* squared Euclidean distance of two vec3f
Dist2(a, b) ==
    (a[1] - b[1]) * (a[1] - b[1]) + (a[2] - b[2]) * (a[2] - b[2])
        + (a[3] - b[3]) * (a[3] - b[3])

\* ----------------------------------------------------------------- kdtree
\* The tree is kept as the list of the inserted candidates (their indices
\* into data) in the order a range query reports them; that order depends
\* on the tree's layout and is chosen when the tree is built.
TreeOrders(n) == {[k \in 1..n |-> k - 1], [k \in 1..n |-> n - k]}

\* kd_nearest_range: every inserted point within Euclidean distance range
\* of pos, the boundary included.
kd_nearest_range(tree, data, pos, range) ==
    SelectSeq(tree, LAMBDA q : Dist2(At(data, q), pos) <= range * range)

\* ----------------------------------------------------------------- DBSCAN
\* DBSCAN(){}: the vectors and the set are empty.  The scalars are not
\* initialised by the constructor; no path reads them before Run has set
\* them, so they are given a fixed value here.
\* pc, pid, cid, border: the position of a Run in progress and its locals.
\* rc: the value the last Run returned.
\* arg_eps, arg_min: the eps and min the last Run was called with.
\* n_build, n_query, n_visit, n_push: observers of the current Run (index
\* builds, regionQuery calls per candidate, visited false->true transitions,
\* worklist pushes per candidate in the current expansion).
NewDBSCAN ==
    [visited |-> <<>>, assigned |-> <<>>, borderset |-> {}, datalen |-> 0,
     minpts |-> 0, epsilon |-> 0, tree |-> <<>>, data |-> <<>>,
     clusters |-> <<>>, noise |-> <<>>,
     pc |-> "idle", pid |-> 0, cid |-> 0, border |-> <<>>, rc |-> "none",
     arg_eps |-> 0, arg_min |-> 0,
     n_build |-> 0, n_query |-> <<>>, n_visit |-> 0, n_push |-> <<>>]

\* the queried candidate reported among its own neighbours
regionQuery_WithSelf(d, pid) ==
    kd_nearest_range(d.tree, d.data, At(d.data, pid), d.epsilon)

\* std::vector<uint> DBSCAN::regionQuery(const uint pid) const
regionQuery(d, pid) ==
    SelectSeq(kd_nearest_range(d.tree, d.data, At(d.data, pid), d.epsilon),
              LAMBDA pnpid : pid # pnpid)

\* the flag set without storing the candidate in the cluster
addToCluster_FlagOnly(d, pid, cid) ==
    [d EXCEPT !.assigned = SetAt(@, pid, TRUE)]

\* the candidate stored in the cluster without setting its flag
addToCluster_NoFlag(d, pid, cid) ==
    [d EXCEPT !.clusters = SetAt(@, cid, Append(At(@, cid), pid))]

\* void DBSCAN::addToCluster(const uint pid, const uint cid)
addToCluster(d, pid, cid) ==
    [d EXCEPT !.clusters = SetAt(@, cid, Append(At(@, cid), pid)),
              !.assigned = SetAt(@, pid, TRUE)]

\* the query issued without marking the candidate visited
visitAndQuery_NoMark(d, pid) ==
    [d EXCEPT !.n_visit = @ + 1,
              !.n_query = SetAt(@, pid, At(@, pid) + 1)]

\* this->visited[pid] = true; ... = this->regionQuery(pid);
\* (the two statements always come together, Run:81-83 and
\* expandCluster:158-159); the observers count them
visitAndQuery(d, pid) ==
    [d EXCEPT !.visited = SetAt(@, pid, TRUE),
              !.n_visit = @ + 1,
              !.n_query = SetAt(@, pid, At(@, pid) + 1)]

\* border.push(pid); this->addToBorderSet(pid);
pushBorder(d, pid) ==
    [d EXCEPT !.border = Append(@, pid),
              !.borderset = @ \cup {pid},
              !.n_push = SetAt(@, pid, At(@, pid) + 1)]

\* for (uint pid : neighbors) border.push(pid);
\* this->addToBorderSet(neighbors);
RECURSIVE pushNeighbors(_, _)
pushNeighbors(d, neighbors) ==
    IF neighbors = <<>> THEN d
    ELSE pushNeighbors(pushBorder(d, Head(neighbors)), Tail(neighbors))

\* every neighbour pushed, in the border set or not
RECURSIVE pushNewNeighbors_NoSetCheck(_, _)
pushNewNeighbors_NoSetCheck(d, pidneighbors) ==
    IF pidneighbors = <<>> THEN d
    ELSE pushNewNeighbors_NoSetCheck(pushBorder(d, Head(pidneighbors)),
                                     Tail(pidneighbors))

\* for (uint pidnid : pidneighbors)
\*     if (!this->isInBorderSet(pidnid)) { border.push(pidnid); addToBorderSet(pidnid); }
RECURSIVE pushNewNeighbors(_, _)
pushNewNeighbors(d, pidneighbors) ==
    IF pidneighbors = <<>> THEN d
    ELSE LET pidnid == Head(pidneighbors)
         IN pushNewNeighbors(IF pidnid \notin d.borderset
                                 THEN pushBorder(d, pidnid) ELSE d,
                             Tail(pidneighbors))

\* expandCluster returns when the worklist is empty; Run's for loop then
\* moves to the next pid
leaveExpandWhenEmpty(d) ==
    IF d.border = <<>> THEN [d EXCEPT !.pc = "seed", !.pid = @ + 1] ELSE d

\* the check of the vector's size left out
invalidInput_MinOnly(V, min) == min < 1

\* if (V->size() < 1) return FAILED;  if (min < 1) return FAILED;
invalidInput(V, min) == Len(V) < 1 \/ min < 1

\* a seed with exactly minpts neighbours skipped as well
seedIsNoise_OffByOne(neightbors, minpts) == Len(neightbors) <= minpts

\* if (neightbors.size() < this->minpts) continue;
seedIsNoise(neightbors, minpts) == Len(neightbors) < minpts

\* if (pidneighbors.size() >= this->minpts)
isCore(pidneighbors, minpts) == Len(pidneighbors) >= minpts

\* DBSCAN::Run up to the for loop: validation, initialisation, buildKdtree.
\* tree is the layout buildKdtree produces.
RunEnter(d, V, eps, min, tree) ==
    LET d0 == [d EXCEPT !.arg_eps = eps, !.arg_min = min,
                        !.n_build = 0, !.n_visit = 0,
                        !.n_query = Fill(Len(V), 0),
                        !.n_push = Fill(Len(V), 0)]
    IN IF invalidInput(V, min) THEN [d0 EXCEPT !.rc = "FAILED"]
       ELSE [d0 EXCEPT !.datalen = Len(V),
                       !.visited = Fill(Len(V), FALSE),
                       !.assigned = Fill(Len(V), FALSE),
                       !.clusters = <<>>,
                       !.noise = <<>>,
                       !.minpts = min,
                       !.data = V,
                       !.epsilon = eps,
                       !.tree = tree,
                       !.n_build = 1,
                       !.pc = "seed", !.pid = 0, !.cid = 0,
                       !.border = <<>>, !.rc = "running"]

\* one iteration of Run's for loop, up to the entry of expandCluster's
\* while loop
RunSeed(d) ==
    LET pid == d.pid
        d1 == [d EXCEPT !.borderset = {}]
    IN IF At(d.visited, pid) THEN [d1 EXCEPT !.pid = @ + 1]
       ELSE LET d2 == visitAndQuery(d1, pid)
                neightbors == regionQuery(d2, pid)
            IN IF seedIsNoise(neightbors, d.minpts)
               THEN [d2 EXCEPT !.pid = @ + 1]
               ELSE LET cid == Len(d2.clusters)
                        d3 == [d2 EXCEPT !.clusters = Append(@, <<>>),
                                         !.borderset = @ \cup {pid},
                                         !.cid = cid,
                                         !.border = <<>>,
                                         !.n_push = Fill(d.datalen, 0),
                                         !.pc = "expand"]
                        d4 == addToCluster(d3, pid, cid)
                    IN leaveExpandWhenEmpty(pushNeighbors(d4, neightbors))

\* a popped unvisited candidate joins the cluster whether or not it is core
RunExpand_AbsorbBorder(d) ==
    LET pid == Head(d.border)
        d1 == [d EXCEPT !.border = Tail(@)]
    IN leaveExpandWhenEmpty(
         IF ~At(d1.visited, pid)
         THEN LET d2 == visitAndQuery(d1, pid)
                  pidneighbors == regionQuery(d2, pid)
              IN IF isCore(pidneighbors, d2.minpts)
                 THEN pushNewNeighbors(addToCluster(d2, pid, d2.cid),
                                       pidneighbors)
                 ELSE addToCluster(d2, pid, d2.cid)
         ELSE d1)

\* a popped candidate is queried whether or not it was visited before
RunExpand_NoVisitedCheck(d) ==
    LET pid == Head(d.border)
        d1 == [d EXCEPT !.border = Tail(@)]
    IN leaveExpandWhenEmpty(
         LET d2 == visitAndQuery(d1, pid)
             pidneighbors == regionQuery(d2, pid)
         IN IF isCore(pidneighbors, d2.minpts)
            THEN pushNewNeighbors(addToCluster(d2, pid, d2.cid),
                                  pidneighbors)
            ELSE d2)

\* one iteration of expandCluster's while loop
RunExpand(d) ==
    LET pid == Head(d.border)
        d1 == [d EXCEPT !.border = Tail(@)]
    IN leaveExpandWhenEmpty(
         IF ~At(d1.visited, pid)
         THEN LET d2 == visitAndQuery(d1, pid)
                  pidneighbors == regionQuery(d2, pid)
              IN IF isCore(pidneighbors, d2.minpts)
                 THEN pushNewNeighbors(addToCluster(d2, pid, d2.cid),
                                       pidneighbors)
                 ELSE d2
         ELSE d1)

\* for (pid ...) if (!assigned[pid]) noise.push_back(pid);
RECURSIVE collectNoise(_, _)
collectNoise(assigned, pid) ==
    IF pid >= Len(assigned) THEN <<>>
    ELSE (IF ~At(assigned, pid) THEN <<pid>> ELSE <<>>)
             \o collectNoise(assigned, pid + 1)

\* the end of Run: the noise loop, destroyKdtree, return SUCCESS
RunLeave(d) ==
    [d EXCEPT !.noise = @ \o collectNoise(d.assigned, 0),
              !.tree = <<>>,
              !.pc = "idle", !.rc = "SUCCESS"]

\* a Run in progress carried to its return
RECURSIVE RunToEnd(_)
RunToEnd(d) ==
    IF d.pc = "seed"
    THEN IF d.pid < d.datalen THEN RunToEnd(RunSeed(d)) ELSE RunLeave(d)
    ELSE IF d.pc = "expand" THEN RunToEnd(RunExpand(d))
    ELSE d

\* int DBSCAN::Run(std::vector<vec3f>* V, const float eps, const uint min)
Run(d, V, eps, min, tree) == RunToEnd(RunEnter(d, V, eps, min, tree))

\* ------------------------------------------------------------- RadarTrack
\* struct RadarTrack {xyz[3], vel[3], intensity, objectID}; a
\* std::vector<RadarTrack>(n) holds n value-initialised records
ZeroTrack ==
    [xyz |-> <<0, 0, 0>>, vel |-> <<0, 0, 0>>, intensity |-> 0, objectID |-> 0]

Add3(a, b) == <<a[1] + b[1], a[2] + b[2], a[3] + b[3]>>

RECURSIVE GCD(_, _)
GCD(a, b) == IF b = 0 THEN a ELSE GCD(b, a % b)

Abs(x) == IF x < 0 THEN -x ELSE x

\* the float quotient a / n, n a size_t: exact, as a reduced fraction;
\* a / 0 is <<1, 0>>, <<-1, 0>> (infinities) or <<0, 0>> (NaN)
Quot(a, n) ==
    IF n = 0 THEN <<(IF a > 0 THEN 1 ELSE IF a < 0 THEN -1 ELSE 0), 0>>
    ELSE LET g == GCD(Abs(a), n) IN <<a \div g, n \div g>>

Quot3(a, n) == <<Quot(a[1], n), Quot(a[2], n), Quot(a[3], n)>>

\* ------------------------------------------------ ChFilterRadarProcess::Apply
\* cudaMemcpyAsync + cudaStreamSynchronize into buf, a vector of
\* value-initialised records, of which the transfer has written the first
\* `copied`.  Neither return value is looked at.
DeviceToHost(records, copied) ==
    [k \in 1..Len(records) |-> IF k <= copied THEN records[k] ELSE ZeroTrack]

\* the filtering pass over buf
RECURSIVE StageFrom(_, _, _)
StageFrom(st, buf, i) ==
    IF i >= Len(buf) THEN st
    ELSE IF At(buf, i).intensity > 0
         THEN StageFrom(
                [processed_buffer |->
                     SetAt(st.processed_buffer, st.Beam_return_count, At(buf, i)),
                 points |-> Append(st.points, At(buf, i).xyz),
                 Beam_return_count |-> st.Beam_return_count + 1],
                buf, i + 1)
         ELSE StageFrom(st, buf, i + 1)

Stage(buf) ==
    StageFrom([processed_buffer |-> Fill(Len(buf), ZeroTrack),
               points |-> <<>>, Beam_return_count |-> 0], buf, 0)

\* the cluster's own index taken as the objectID
ObjectIdOf_Index(i) == i

\* processed_buffer[idx].objectID = i + 1;
ObjectIdOf(i) == i + 1

\* the nested loop over clusters[i][j]
RECURSIVE Accumulate(_, _, _, _)
Accumulate(st, clusters, i, j) ==
    IF i >= Len(clusters) THEN st
    ELSE IF j >= Len(At(clusters, i)) THEN Accumulate(st, clusters, i + 1, 0)
    ELSE LET idx == At(At(clusters, i), j)
             pb == SetAt(st.processed_buffer, idx,
                         [At(st.processed_buffer, idx)
                              EXCEPT !.objectID = ObjectIdOf(i)])
         IN Accumulate(
              [processed_buffer |-> pb,
               valid_returns |-> Append(st.valid_returns, At(pb, idx)),
               centroids |->
                   SetAt(st.centroids, i,
                         Add3(At(st.centroids, i), At(pb, idx).xyz)),
               avg_velocity |->
                   SetAt(st.avg_velocity, i,
                         Add3(At(st.avg_velocity, i), At(pb, idx).vel))],
              clusters, i, j + 1)

\* the sums divided by the number of clusters
Divisor_ClusterCount(clusters, i) == Len(clusters)

\* the divisor of the sums of cluster i: clusters[i].size()
Divisor(clusters, i) == Len(At(clusters, i))

\* avg_velocity/centroids cleared and zero-filled, the nested loop, then
\* the division by clusters[i].size()
Aggregate(clusters, processed_buffer) ==
    LET st == Accumulate(
                [processed_buffer |-> processed_buffer,
                 valid_returns |-> <<>>,
                 centroids |-> Fill(Len(clusters), <<0, 0, 0>>),
                 avg_velocity |-> Fill(Len(clusters), <<0, 0, 0>>)],
                clusters, 0, 0)
    IN [st EXCEPT
          !.centroids =
              [k \in 1..Len(@) |-> Quot3(@[k], Divisor(clusters, k - 1))],
          !.avg_velocity =
              [k \in 1..Len(@) |-> Quot3(@[k], Divisor(clusters, k - 1))]]

\* the candidate count published as invalid_returns
InvalidReturns_All(Beam_return_count, valid_returns) == Beam_return_count

\* invalid_returns = Beam_return_count - valid_returns.size();
InvalidReturns(Beam_return_count, valid_returns) ==
    Beam_return_count - Len(valid_returns)

\* the copy one record short
PublishRecords_Short(Buffer, valid_returns) ==
    [k \in 1..Len(Buffer) |->
        IF k < Len(valid_returns) THEN valid_returns[k] ELSE Buffer[k]]

\* memcpy(Buffer.get(), valid_returns.data(), Beam_return_count * sizeof)
\* over the records the kernel left in the buffer
PublishRecords(Buffer, valid_returns) ==
    [k \in 1..Len(Buffer) |->
        IF k <= Len(valid_returns) THEN valid_returns[k] ELSE Buffer[k]]

\* ------------------------------------------------------------------ state
\* frame:            the frame handed to the filter: the records the kernel
\*                   cuda_radar_pointcloud_from_angles writes for it, the
\*                   outcome of the device-to-host copy, and m_buffer_in's
\*                   LaunchedCount and TimeStamp
\* m_buffer_out:     the SensorDeviceProcessedRadarBuffer
\* buf, processed_buffer, points: Apply's locals, as Apply left them
\* dbscan:           the DBSCAN object (Apply's local, or the object the
\*                   direct driver calls Run on)
\* pc:               "idle" (initialised), "ready" (a frame is waiting),
\*                   "done" (Apply has returned)
VARIABLES frame, m_buffer_out, buf, processed_buffer, points, dbscan, pc

vars == <<frame, m_buffer_out, buf, processed_buffer, points, dbscan, pc>>

\* ----------------------------------------------------------------- inputs
\* what beam i (1-based) of a frame can return: nothing (intensity 0), or a
\* hit at one of three places on the z axis, A = 0, B = +1.0, D = -1.0
\* (A is within epsilon of B and of D, B and D are not); the intensity of a
\* hit is the beam's number, so that a record can be told from the others.
\* The beams of a row see the same thing: a frame gives one kind per row.
Kinds == {"none", "A", "B", "D"}

TrackOf(kind, i) ==
    CASE kind = "none" -> ZeroTrack
      [] kind = "A" ->
           [xyz |-> <<0, 0, 0>>, vel |-> <<2, 0, 0>>, intensity |-> i, objectID |-> 0]
      [] kind = "B" ->
           [xyz |-> <<0, 0, 2>>, vel |-> <<0, 4, 0>>, intensity |-> i, objectID |-> 0]
      [] kind = "D" ->
           [xyz |-> <<0, 0, -2>>, vel |-> <<0, 0, -6>>, intensity |-> i, objectID |-> 0]

\* candidate positions of the direct driver: z = 0, 0.5, 1.5 and 5
Positions == {<<0, 0, 0>>, <<0, 0, 1>>, <<0, 0, 3>>, <<0, 0, 10>>}

CandidateVectors == UNION {[1..n -> Positions] : n \in 0..MaxPts}

\* the vectors of the later calls on the same object: no candidate or one
AgainVectors == {<<>>} \cup {<<p>> : p \in Positions}

\* the least epsilon that reaches from any of the Positions to any other
EpsAll ==
    CHOOSE e \in 1..100 :
        /\ \A a, b \in Positions : Dist2(a, b) <= e * e
        /\ \A f \in 1..(e - 1) : \E a, b \in Positions : Dist2(a, b) > f * f

\* 0, 1.0f, and EpsAll
EpsValues == {0, 2, EpsAll}

MinPtsValues == 0..2

NoFrame ==
    [records |-> <<>>, memcpy_ok |-> TRUE, copied |-> 0,
     LaunchedCount |-> 0, TimeStamp |-> 0]

\* ------------------------------------------------------------------- Init
\* ChFilterRadarProcess::Initialize has run: the output buffer is allocated
\* (Width * Height records) and nothing has been published
Init ==
    /\ frame = NoFrame
    /\ m_buffer_out =
         [Buffer |-> Fill(FrameSize, ZeroTrack), Beam_return_count |-> 0,
          invalid_returns |-> 0, Num_clusters |-> 0, centroids |-> <<>>,
          avg_velocity |-> <<>>, LaunchedCount |-> 0, TimeStamp |-> 0]
    /\ buf = <<>>
    /\ processed_buffer = <<>>
    /\ points = <<>>
    /\ dbscan = NewDBSCAN
    /\ pc = "idle"

\* ---------------------------------------------------------------- actions
\* the upstream stage hands a frame to the filter; a transfer that will
\* fail (memcpy_ok false) leaves buf untouched or, the error being reported
\* after the fact, fully written
FrameArrives ==
    /\ pc = "idle"
    /\ \E kinds \in [1..Height -> Kinds], ok \in BOOLEAN :
         \E copied \in (IF ok THEN {FrameSize} ELSE {0, FrameSize}) :
            frame' = [records |-> [i \in 1..FrameSize |->
                                      TrackOf(kinds[((i - 1) \div Width) + 1], i)],
                      memcpy_ok |-> ok, copied |-> copied,
                      LaunchedCount |-> 1, TimeStamp |-> 1]
    /\ pc' = "ready"
    /\ UNCHANGED <<m_buffer_out, buf, processed_buffer, points, dbscan>>

\* void ChFilterRadarProcess::Apply()
\* (the kernel has written frame.records into m_buffer_out->Buffer before
\* the copy; tree is the layout DBSCAN::buildKdtree produces)
Apply ==
    /\ pc = "ready"
    /\ \E hostbuf \in {DeviceToHost(frame.records, frame.copied)} :
       \E st \in {Stage(hostbuf)} :
       \E tree \in TreeOrders(Len(st.points)) :
       \E d \in {Run(NewDBSCAN, st.points, epsilon, minimum_points, tree)} :
       \E agg \in {Aggregate(d.clusters, st.processed_buffer)} :
          /\ buf' = hostbuf
          /\ points' = st.points
          /\ dbscan' = d
          /\ processed_buffer' = agg.processed_buffer
          /\ m_buffer_out' =
               [Buffer |-> PublishRecords(frame.records, agg.valid_returns),
                Beam_return_count |-> Len(agg.valid_returns),
                invalid_returns |->
                    InvalidReturns(st.Beam_return_count, agg.valid_returns),
                Num_clusters |-> Len(d.clusters),
                centroids |-> agg.centroids,
                avg_velocity |-> agg.avg_velocity,
                LaunchedCount |-> frame.LaunchedCount,
                TimeStamp |-> frame.TimeStamp]
    /\ pc' = "done"
    /\ UNCHANGED frame

Next == FrameArrives \/ Apply

Spec == Init /\ [][Next]_vars

\* ------------------------------------------------- DBSCAN driven directly
\* a caller invokes Run on the object while no Run is in progress: the
\* first time with any candidate vector, later with a short one
CallRun ==
    /\ dbscan.pc = "idle"
    /\ \E V \in (IF dbscan.rc = "none" THEN CandidateVectors ELSE AgainVectors),
          eps \in EpsValues, min \in MinPtsValues :
         \E tree \in TreeOrders(Len(V)) :
            dbscan' = RunEnter(dbscan, V, eps, min, tree)
    /\ UNCHANGED <<frame, m_buffer_out, buf, processed_buffer, points, pc>>

StepSeed ==
    /\ dbscan.pc = "seed"
    /\ dbscan.pid < dbscan.datalen
    /\ dbscan' = RunSeed(dbscan)
    /\ UNCHANGED <<frame, m_buffer_out, buf, processed_buffer, points, pc>>

StepExpand ==
    /\ dbscan.pc = "expand"
    /\ dbscan' = RunExpand(dbscan)
    /\ UNCHANGED <<frame, m_buffer_out, buf, processed_buffer, points, pc>>

StepLeave ==
    /\ dbscan.pc = "seed"
    /\ dbscan.pid >= dbscan.datalen
    /\ dbscan' = RunLeave(dbscan)
    /\ UNCHANGED <<frame, m_buffer_out, buf, processed_buffer, points, pc>>

NextDbscan == CallRun \/ StepSeed \/ StepExpand \/ StepLeave

SpecDbscan == Init /\ [][NextDbscan]_vars

\* Run is one sequential call: once entered, its for loop and the while
\* loop of expandCluster keep executing until the call returns
SpecDbscanLive ==
    /\ Init
    /\ [][NextDbscan]_vars
    /\ WF_vars(StepSeed)
    /\ WF_vars(StepExpand)
    /\ WF_vars(StepLeave)

\* ================================================================= claims
\* the candidates of the frame Apply has processed: the records of the host
\* copy with intensity > 0, in beam order (candidate p is Candidates[p + 1])
Candidates == SelectSeq(buf, LAMBDA r : r.intensity > 0)

\* the candidates (0-based) that are members of some cluster of d
Clustered(d) == UNION {Elems(d.clusters[c]) : c \in 1..Len(d.clusters)}

\* C1: after Apply, each of the first Beam_return_count records of the
\* output buffer has an objectID in 1..Num_clusters, never 0.
C1_ObjectIdInRange ==
    pc = "done" =>
        \A k \in 1..m_buffer_out.Beam_return_count :
            /\ m_buffer_out.Buffer[k].objectID >= 1
            /\ m_buffer_out.Buffer[k].objectID <= m_buffer_out.Num_clusters

\* a frame with two clusters has been processed, records of both published
C1_Witness ==
    /\ pc = "done"
    /\ m_buffer_out.Num_clusters = 2
    /\ \E j, k \in 1..m_buffer_out.Beam_return_count :
          /\ m_buffer_out.Buffer[j].objectID = 1
          /\ m_buffer_out.Buffer[k].objectID = 2

\* C2: after Apply, valid_returns + invalid_returns is the number of records
\* read with intensity > 0, and invalid_returns is the number of candidates
\* that are in no cluster.
C2_ReturnCounts ==
    pc = "done" =>
        /\ m_buffer_out.Beam_return_count + m_buffer_out.invalid_returns
               = Cardinality({k \in 1..Len(buf) : buf[k].intensity > 0})
        /\ m_buffer_out.invalid_returns
               = Cardinality({p \in 0..(Len(Candidates) - 1) :
                                 p \notin Clustered(dbscan)})

\* a frame with a record of intensity 0, a cluster and two noise candidates
C2_Witness ==
    /\ pc = "done"
    /\ \E k \in 1..Len(buf) : buf[k].intensity = 0
    /\ m_buffer_out.Beam_return_count >= 1
    /\ m_buffer_out.invalid_returns >= 2

\* the clusters of d as sets of candidates
ClusterSets(d) == {Elems(d.clusters[c]) : c \in 1..Len(d.clusters)}

\* the candidates of d are in ascending order of position
Ascending(d) ==
    \A k \in 1..(d.datalen - 1) : d.data[k][3] <= d.data[k + 1][3]

\* C3: for fixed positions, epsilon and minPts, Run yields the same
\* partition into cluster sets and the same noise set for every order of the
\* candidates in the input vector (and every layout of the index).  Every
\* vector is a permutation of an ascending one, so it is stated from the
\* ascending arrangement: the run on it and the run on each of its
\* permutations yield the same cluster sets and noise set, candidates
\* identified through the permutation.
C3_PartitionOrderIndependent ==
    (dbscan.rc = "SUCCESS" /\ Ascending(dbscan)) =>
        \A perm \in Permutations(1..dbscan.datalen) :
        \A tree \in TreeOrders(dbscan.datalen) :
        \A e \in {Run(NewDBSCAN, [k \in 1..dbscan.datalen |-> dbscan.data[perm[k]]],
                      dbscan.epsilon, dbscan.minpts, tree)} :
            /\ {{perm[q + 1] - 1 : q \in cs} : cs \in ClusterSets(e)}
                   = ClusterSets(dbscan)
            /\ {perm[q + 1] - 1 : q \in Elems(e.noise)} = Elems(dbscan.noise)

\* a run over three or more ascending candidates that found a cluster of
\* two or more and left noise
C3_Witness ==
    /\ dbscan.rc = "SUCCESS"
    /\ Ascending(dbscan)
    /\ dbscan.datalen >= 3
    /\ \E c \in 1..Len(dbscan.clusters) : Len(dbscan.clusters[c]) >= 2
    /\ dbscan.noise # <<>>

\* the scenario's candidates p0 = (0,0,0), p1 = (0,0,0.5), p2 = (0,0,5)
C4_Points == <<<<0, 0, 0>>, <<0, 0, 1>>, <<0, 0, 10>>>>

\* Run has returned from the scenario's candidates with epsilon = 1 and the
\* given minPts
C4_Ran(min) ==
    /\ dbscan.rc = "SUCCESS"
    /\ dbscan.data = C4_Points
    /\ dbscan.epsilon = epsilon
    /\ dbscan.minpts = min

\* what Apply's aggregation publishes for the clusters of dbscan, candidate
\* p carrying intensity p + 1
C4_Published ==
    Aggregate(dbscan.clusters,
              [k \in 1..dbscan.datalen |->
                  [xyz |-> dbscan.data[k], vel |-> <<0, 0, 0>>,
                   intensity |-> k, objectID |-> 0]])

\* one cluster {p0, p1} published with objectID 1, p2 noise and dropped,
\* valid_returns = 2, invalid_returns = 1, num_clusters = 1
C4_OneClusterOfP0P1 ==
    /\ Len(dbscan.clusters) = 1
    /\ Elems(dbscan.clusters[1]) = {0, 1}
    /\ dbscan.noise = <<2>>
    /\ Len(C4_Published.valid_returns) = 2
    /\ {r.intensity : r \in Elems(C4_Published.valid_returns)} = {1, 2}
    /\ \A r \in Elems(C4_Published.valid_returns) : r.objectID = 1
    /\ InvalidReturns(dbscan.datalen, C4_Published.valid_returns) = 1

\* C4 as claimed: with epsilon = 1 and minPts = 2 the scenario yields the
\* one cluster {p0, p1}, p2 noise, counts 2 / 1 / 1.
C4_ScenarioAsClaimed == C4_Ran(2) => C4_OneClusterOfP0P1

\* C4 amended: with epsilon = 1 and minPts = 2 no candidate of the scenario
\* has two neighbours other than itself, so there is no cluster, all three
\* candidates are noise and the counts are valid_returns = 0,
\* invalid_returns = 3, num_clusters = 0; the claimed result (cluster
\* {p0, p1} with objectID 1, p2 noise, counts 2 / 1 / 1) is what minPts = 1
\* yields.
C4_ScenarioAmended ==
    /\ C4_Ran(2) =>
          /\ dbscan.clusters = <<>>
          /\ dbscan.noise = <<0, 1, 2>>
          /\ C4_Published.valid_returns = <<>>
          /\ InvalidReturns(dbscan.datalen, C4_Published.valid_returns) = 3
    /\ C4_Ran(1) => C4_OneClusterOfP0P1

\* the scenario has been run with minPts = 2
C4_Witness == C4_Ran(2)

\* Run has returned from a call with minPts = 1 and an epsilon that reaches
\* from every candidate to every other
C5_Ran ==
    /\ dbscan.rc = "SUCCESS"
    /\ dbscan.minpts = 1
    /\ dbscan.epsilon = EpsAll

\* exactly one cluster, holding every candidate
C5_OneClusterOfAll ==
    /\ Len(dbscan.clusters) = 1
    /\ Elems(dbscan.clusters[1]) = 0..(dbscan.datalen - 1)
    /\ Len(dbscan.clusters[1]) = dbscan.datalen
    /\ dbscan.noise = <<>>

\* C5 as claimed: with minPts = 1 and epsilon no smaller than any pairwise
\* distance, every candidate set with at least one candidate forms exactly
\* one cluster that contains every candidate.
C5_AllInOneAsClaimed == (C5_Ran /\ dbscan.datalen >= 1) => C5_OneClusterOfAll

\* C5 amended: with minPts = 1 and epsilon no smaller than any pairwise
\* distance, every candidate set with at least two candidates forms exactly
\* one cluster that contains every candidate; a single candidate has no
\* neighbour, forms no cluster and is noise.
C5_AllInOneAmended ==
    /\ (C5_Ran /\ dbscan.datalen >= 2) => C5_OneClusterOfAll
    /\ (C5_Ran /\ dbscan.datalen = 1) =>
           (dbscan.clusters = <<>> /\ dbscan.noise = <<0>>)

\* such a run over three or more candidates, two of them as far apart as
\* the positions allow
C5_Witness ==
    /\ C5_Ran
    /\ dbscan.datalen >= 3
    /\ \E j, k \in 1..dbscan.datalen :
          Dist2(dbscan.data[j], dbscan.data[k]) = EpsAll * EpsAll

\* C6: a Run called with epsilon <= 0 or with minPts < 1 fails with an error
\* result before any work: in every state of and after such a call the
\* result is FAILED, no index has been built, no candidate has been marked
\* visited, no neighbourhood query has been issued, and no Run is in
\* progress that could produce a cluster.
C6_InvalidParameterRejected ==
    (dbscan.rc # "none" /\ (dbscan.arg_eps <= 0 \/ dbscan.arg_min < 1)) =>
        /\ dbscan.rc = "FAILED"
        /\ dbscan.pc = "idle"
        /\ dbscan.n_build = 0
        /\ dbscan.n_visit = 0
        /\ \A k \in 1..Len(dbscan.n_query) : dbscan.n_query[k] = 0

\* C7: when the device-to-host copy of the frame's records fails, Apply
\* aborts the frame: it leaves the output buffer's records, counts,
\* centroids and average velocities as they were and does not return as if
\* the frame had been processed (the failure reaches the caller).
C7_TransferFailureAborts ==
    [][(pc = "ready" /\ ~frame.memcpy_ok) =>
          (m_buffer_out' = m_buffer_out /\ pc' # "done")]_vars

\* the sum of g over the index set S
RECURSIVE SumOver(_, _)
SumOver(S, g) ==
    IF S = {} THEN 0
    ELSE LET x == CHOOSE y \in S : TRUE IN g[x] + SumOver(S \ {x}, g)

\* the fraction q is the quotient a / n
IsQuotient(q, a, n) == n > 0 /\ q[2] > 0 /\ q[1] * n = a * q[2]

\* C8: after Apply, centroids and avg_velocity have Num_clusters entries
\* each, and entry i is, component by component, the sum of the positions
\* (velocities) of the members of cluster i divided by its member count.
C8_ClusterMeans ==
    pc = "done" =>
        /\ m_buffer_out.Num_clusters = Len(dbscan.clusters)
        /\ Len(m_buffer_out.centroids) = m_buffer_out.Num_clusters
        /\ Len(m_buffer_out.avg_velocity) = m_buffer_out.Num_clusters
        /\ \A i \in 1..Len(dbscan.clusters) : \A c \in 1..3 :
             LET members == dbscan.clusters[i]
                 J == 1..Len(members)
             IN /\ IsQuotient(m_buffer_out.centroids[i][c],
                              SumOver(J, [j \in J |->
                                  Candidates[members[j] + 1].xyz[c]]),
                              Len(members))
                /\ IsQuotient(m_buffer_out.avg_velocity[i][c],
                              SumOver(J, [j \in J |->
                                  Candidates[members[j] + 1].vel[c]]),
                              Len(members))

\* a frame has been processed that has two clusters, at different places
\* and of different velocities
C8_Witness ==
    /\ pc = "done"
    /\ Len(m_buffer_out.centroids) = 2
    /\ m_buffer_out.centroids[1] # m_buffer_out.centroids[2]
    /\ m_buffer_out.avg_velocity[1] # m_buffer_out.avg_velocity[2]

\* the number of the first Beam_return_count output records that are the
\* record of candidate p (a hit's intensity is its beam's number)
TimesPublished(p) ==
    Cardinality({k \in 1..m_buffer_out.Beam_return_count :
                    m_buffer_out.Buffer[k].intensity = Candidates[p + 1].intensity})

\* C9: after Apply, the first valid_returns records of the output buffer
\* are the clustered candidates, each once, cluster after cluster in cluster
\* order and within a cluster in the order its members were added; a
\* candidate of no cluster is not among them.
C9_CompactedOutput ==
    pc = "done" =>
        LET cl == dbscan.clusters
            Before(c) == SumOver(1..(c - 1), [b \in 1..(c - 1) |-> Len(cl[b])])
        IN /\ m_buffer_out.Beam_return_count = Before(Len(cl) + 1)
           /\ \A c \in 1..Len(cl) : \A j \in 1..Len(cl[c]) :
                 m_buffer_out.Buffer[Before(c) + j]
                     = [Candidates[cl[c][j] + 1] EXCEPT !.objectID = c]
           /\ \A p \in 0..(Len(Candidates) - 1) :
                 TimesPublished(p) = (IF p \in Clustered(dbscan) THEN 1 ELSE 0)

\* a frame has been processed whose first beam returned nothing, with a
\* cluster published and a candidate left out as noise
C9_Witness ==
    /\ pc = "done"
    /\ buf[1].intensity = 0
    /\ m_buffer_out.Beam_return_count >= 2
    /\ \E p \in 0..(Len(Candidates) - 1) : p \notin Clustered(dbscan)

\* C10: a frame in which no record has intensity > 0 is processed to the
\* end without the spatial index being built, and the result has
\* num_clusters = 0, valid_returns = 0, invalid_returns = 0 and empty
\* centroid and average-velocity arrays.
C10_EmptyFrame ==
    (pc = "done" /\ \A k \in 1..Len(frame.records) : frame.records[k].intensity <= 0) =>
        /\ dbscan.n_build = 0
        /\ dbscan.n_visit = 0
        /\ dbscan.pc = "idle"
        /\ m_buffer_out.Num_clusters = 0
        /\ m_buffer_out.Beam_return_count = 0
        /\ m_buffer_out.invalid_returns = 0
        /\ m_buffer_out.centroids = <<>>
        /\ m_buffer_out.avg_velocity = <<>>

\* a frame without any hit has been transferred and processed
C10_Witness ==
    /\ pc = "done"
    /\ frame.memcpy_ok
    /\ Len(frame.records) = FrameSize
    /\ \A k \in 1..Len(frame.records) : frame.records[k].intensity = 0

\* C11: in a cluster's expansion, a candidate popped from the worklist that
\* is already visited and not assigned (an earlier seed attempt failed on
\* it) is added to the current cluster and its assigned flag becomes true,
\* and its neighbours are not queried again.
C11_VisitedUnassignedJoins ==
    [][(/\ dbscan.pc = "expand"
        /\ At(dbscan.visited, Head(dbscan.border))
        /\ ~At(dbscan.assigned, Head(dbscan.border))) =>
          (/\ At(dbscan'.assigned, Head(dbscan.border))
           /\ Head(dbscan.border) \in Elems(At(dbscan'.clusters, dbscan.cid))
           /\ dbscan'.n_query = dbscan.n_query)]_vars

\* the number of candidates other than p within epsilon of p
NeighbourCount(d, p) ==
    Cardinality({q \in 0..(d.datalen - 1) :
                    q # p /\ Dist2(At(d.data, q), At(d.data, p))
                                 <= d.epsilon * d.epsilon})

\* p is a core candidate of d
CoreCandidate(d, p) == NeighbourCount(d, p) >= d.minpts

\* p is within epsilon of a core candidate other than itself
NearCore(d, p) ==
    \E q \in 0..(d.datalen - 1) :
        /\ q # p
        /\ CoreCandidate(d, q)
        /\ Dist2(At(d.data, q), At(d.data, p)) <= d.epsilon * d.epsilon

\* C12: after Run, every non-core candidate within epsilon of a core
\* candidate is a member of a cluster; the noise candidates are those within
\* epsilon of no core candidate.
C12_BorderAbsorbed ==
    dbscan.rc = "SUCCESS" =>
        \A p \in 0..(dbscan.datalen - 1) :
            /\ (~CoreCandidate(dbscan, p) /\ NearCore(dbscan, p))
                   => p \in Clustered(dbscan)
            /\ p \in Elems(dbscan.noise)
                   <=> (~CoreCandidate(dbscan, p) /\ ~NearCore(dbscan, p))

\* C13 as stated: every cluster produced by Run has at least minPts members.
C13_ClusterHasMinPts ==
    dbscan.rc = "SUCCESS" =>
        \A c \in 1..Len(dbscan.clusters) :
            Len(dbscan.clusters[c]) >= dbscan.minpts

\* C13 (amended): every cluster of Run has at least one member, whatever the
\* candidates and minPts, so the division by the member count in Apply
\* never divides by zero; a cluster can have fewer than minPts members.
C13_ClusterNotEmpty ==
    \A c \in 1..Len(dbscan.clusters) :
        /\ Len(dbscan.clusters[c]) >= 1
        /\ Divisor(dbscan.clusters, c - 1) >= 1

C13_Witness ==
    /\ dbscan.rc = "SUCCESS"
    /\ dbscan.minpts = 2
    /\ Len(dbscan.clusters) = 1
    /\ Len(dbscan.clusters[1]) = 1
    /\ dbscan.noise # <<>>

\* C14: within one Run the neighbourhood query is issued at most once per
\* candidate, and exactly for the candidates whose visited flag the run has
\* set: the number of queries is the number of visited candidates, and no
\* query is issued for a candidate that is already visited.
C14_OneQueryPerCandidate ==
    dbscan.rc \in {"running", "SUCCESS"} =>
        /\ \A p \in 0..(dbscan.datalen - 1) :
              /\ At(dbscan.n_query, p) <= 1
              /\ At(dbscan.n_query, p) = 1 <=> At(dbscan.visited, p)
        /\ dbscan.n_visit =
              Cardinality({p \in 0..(dbscan.datalen - 1) :
                              At(dbscan.visited, p)})
        /\ SumOver(0..(dbscan.datalen - 1),
                   [p \in 0..(dbscan.datalen - 1) |->
                       At(dbscan.n_query, p)]) = dbscan.n_visit

C14_Witness ==
    /\ dbscan.rc = "SUCCESS"
    /\ dbscan.datalen >= 3
    /\ dbscan.n_visit = dbscan.datalen
    /\ \E c \in 1..Len(dbscan.clusters) : Len(dbscan.clusters[c]) >= 2
    /\ dbscan.noise # <<>>

\* C15: within one Run the flags only move forward: a visited flag that is
\* true stays true and an assigned flag that is true stays true until the
\* run ends, and in every reachable state an assigned candidate is visited.
C15_FlagsForward ==
    /\ [](\A p \in 1..Len(dbscan.assigned) :
              dbscan.assigned[p] => dbscan.visited[p])
    /\ [][dbscan.rc = "running" =>
              \A p \in 1..Len(dbscan.visited) :
                  /\ dbscan.visited[p] => dbscan'.visited[p]
                  /\ dbscan.assigned[p] => dbscan'.assigned[p]]_vars

C15_Witness ==
    /\ dbscan.rc = "running"
    /\ dbscan.pc = "expand"
    /\ \E p \in 1..Len(dbscan.assigned) : dbscan.assigned[p]
    /\ \E p \in 1..Len(dbscan.visited) :
          dbscan.visited[p] /\ ~dbscan.assigned[p]
    /\ \E p \in 1..Len(dbscan.visited) : ~dbscan.visited[p]

\* C16: whatever calls of Run came before on the same object, including
\* calls with an empty vector or an invalid minPts, the clusters and flags
\* after a call are those of that call's input alone: a failed call leaves
\* no cluster and no flag, a successful one leaves what a new object
\* computes from the same input.
C16_NoStateSurvives ==
    /\ dbscan.rc = "FAILED" =>
          /\ dbscan.clusters = <<>>
          /\ \A p \in 1..Len(dbscan.visited) : ~dbscan.visited[p]
          /\ \A p \in 1..Len(dbscan.assigned) : ~dbscan.assigned[p]
    /\ dbscan.rc = "SUCCESS" =>
          \E tree \in TreeOrders(dbscan.datalen) :
              \E f \in {Run(NewDBSCAN, dbscan.data, dbscan.epsilon,
                            dbscan.minpts, tree)} :
                  /\ dbscan.clusters = f.clusters
                  /\ dbscan.visited = f.visited
                  /\ dbscan.assigned = f.assigned

\* C17: in every state during and after Run the clusters are pairwise
\* disjoint and no cluster repeats an index, and a candidate's assigned flag
\* is true exactly when the candidate is a member of some cluster.
C17_ClustersDisjoint ==
    /\ \A c \in 1..Len(dbscan.clusters) :
          Cardinality(Elems(dbscan.clusters[c])) = Len(dbscan.clusters[c])
    /\ \A c1, c2 \in 1..Len(dbscan.clusters) :
          c1 # c2 =>
              Elems(dbscan.clusters[c1]) \cap Elems(dbscan.clusters[c2]) = {}
    /\ \A p \in 0..(Len(dbscan.assigned) - 1) :
          At(dbscan.assigned, p) <=> p \in Clustered(dbscan)

C17_Witness ==
    /\ dbscan.rc = "running"
    /\ dbscan.pc = "expand"
    /\ Len(dbscan.clusters) = 2
    /\ Len(dbscan.clusters[1]) >= 2
    /\ \E p \in 1..Len(dbscan.assigned) : ~dbscan.assigned[p]

\* C18: Run terminates for every candidate set, epsilon and minPts it
\* accepts; within one expansion no candidate is pushed onto the worklist
\* more than once and the seed is never pushed, so the worklist of each
\* expansion eventually empties.
C18_RunTerminates ==
    /\ [](dbscan.pc = "expand" =>
            /\ \A p \in 0..(dbscan.datalen - 1) : At(dbscan.n_push, p) <= 1
            /\ At(dbscan.n_push, Head(At(dbscan.clusters, dbscan.cid))) = 0)
    /\ (dbscan.pc = "expand") ~> (dbscan.border = <<>>)
    /\ (dbscan.rc = "running") ~> (dbscan.rc = "SUCCESS")

C18_Witness ==
    /\ dbscan.rc = "SUCCESS"
    /\ dbscan.datalen = MaxPts
    /\ Len(dbscan.clusters) = 1
    /\ Len(dbscan.clusters[1]) = MaxPts
    /\ \A p \in 1..(dbscan.datalen - 1) : At(dbscan.n_push, p) = 1

====
